---------------------------- MODULE Spec2Model ----------------------------
(***************************************************************************)
(* Model of the Mergington High School activities API: src/src/db.py (the  *)
(* activity store, MongoDB backend or in-memory JSON fallback) and         *)
(* src/src/app.py (the HTTP handlers and the startup hook).                *)
(*                                                                         *)
(* A document / activity record is a Python dict: it is modelled as a      *)
(* function from its keys to their values, so that an absent key (no       *)
(* "participants", no "max_participants") is an absent element of DOMAIN.  *)
(* dict.get("max_participants") yields None both for an absent key and for *)
(* a JSON null, so None is modelled as the absent key.                     *)
(***************************************************************************)
EXTENDS Integers, Sequences, FiniteSets, TLC

\* ------------------------------------------------------------------ bounds
\* max_participants of the activity of the first seed file.
MaxCap == 2
\* Number of process restarts explored (the database outlives the process).
MaxRestarts == 1
\* Number of request threads of the concurrent specification.
NumThreads == 2
\* Number of requests the threads of the concurrent specification take up.
MaxRequests == 4

\* ------------------------------------------------------------------ inputs
Emails == {"a@x.com", "b@x.com", "c@x.com"}
Chess == "Chess Club"
Art == "Art Club"
\* A name no seed file holds.
Unknown == "Robotics"
RequestNames == {Chess, Art, Unknown}
Threads == 1..NumThreads

\* The contents of activities.json the runs start from: every roster is
\* duplicate-free and no longer than the activity's max_participants. The
\* second file has an activity with a participant already, and one with
\* neither a max_participants nor a participants key.
SeedFiles ==
  { (Chess :> [description |-> "chess", max_participants |-> MaxCap,
               participants |-> << >>]),
    (Chess :> [description |-> "chess", max_participants |-> 1,
               participants |-> <<"a@x.com">>]
     @@ Art :> [description |-> "art"]) }

EmptyMap == [n \in {} |-> << >>]

\* ----------------------------------------------------------------- helpers
\* Python: x in lst
InList(x, lst) == \E i \in 1..Len(lst) : lst[i] = x

\* lst.pop(0) in the place of lst.remove(x).
ListRemoveHead(lst, x) == SubSeq(lst, 2, Len(lst))

\* Python: lst.remove(x), for x in lst: the first occurrence goes.
ListRemove(lst, x) ==
  LET i == CHOOSE k \in 1..Len(lst) :
             lst[k] = x /\ \A j \in 1..(k - 1) : lst[j] # x
  IN  SubSeq(lst, 1, i - 1) \o SubSeq(lst, i + 1, Len(lst))

\* MongoDB $pull: every matching element goes.
PullAll(lst, x) == SelectSeq(lst, LAMBDA y : y # x)

\* Python: d[k] = v on a copy of d
SetKey(d, k, v) == [x \in DOMAIN d \cup {k} |-> IF x = k THEN v ELSE d[x]]

\* Python: doc.get("participants", [])
GetParticipants(doc) ==
  IF "participants" \in DOMAIN doc THEN doc["participants"] ELSE << >>

\* Python: doc.get("max_participants") is not None
HasMax(doc) == "max_participants" \in DOMAIN doc

NoDup(lst) == \A i, j \in 1..Len(lst) : lst[i] = lst[j] => i = j

\* ------------------------------------------------------------------- state
VARIABLES
  phase,      \* "down" | "imported" (db imported, _connect ran) | "serving"
  mongo,      \* the environment: MONGO_URL "unset", or set with the server
              \* "unreachable" or "reachable"
  using_db,   \* db.using_db
  coll,       \* the MongoDB collection "activities": name -> document
  in_memory,  \* db._in_memory: name -> activity record
  seed,       \* activities.json: name -> record
  seed_ok,    \* whether activities.json can be opened and parsed
  last,       \* the last call and its HTTP response
  signed,     \* history: <<name, email>> signed up by this process and not
              \* unregistered since
  restarts,   \* restarts so far
  th,         \* the request threads of the concurrent specification
  taken       \* requests the threads have taken up so far

vars == <<phase, mongo, using_db, coll, in_memory, seed, seed_ok, last,
          signed, restarts, th, taken>>

\* The store the process reads and writes (db.py branches on using_db).
Store == IF using_db THEN coll ELSE in_memory
Roster(store, a) == IF a \in DOMAIN store THEN GetParticipants(store[a]) ELSE << >>

\* A call and its HTTP response. "before" is the store as the call found it
\* and "follows" whether the call came right after a successful signup of
\* the same email for the same activity (both are history, kept for the
\* properties below).
Response(op, name, email, status, detail, body, before) ==
  [op |-> op, name |-> name, email |-> email, status |-> status,
   detail |-> detail, body |-> body, before |-> before,
   follows |-> /\ last.op = "signup"
               /\ last.status = 200
               /\ last.name = name
               /\ last.email = email]

NoCall ==
  [op |-> "none", name |-> "", email |-> "", status |-> 0, detail |-> "",
   body |-> EmptyMap, before |-> EmptyMap, follows |-> FALSE]

\* A request thread: where it is in its handler and the request's arguments.
IdleThread == [pc |-> "idle", name |-> "", email |-> ""]

Init ==
  /\ phase = "down"
  /\ mongo \in {"unset", "unreachable", "reachable"}
  /\ using_db = FALSE
  /\ coll = EmptyMap
  /\ in_memory = EmptyMap
  /\ \/ seed_ok = TRUE /\ seed \in SeedFiles
     \/ seed_ok = FALSE /\ seed = EmptyMap
  /\ last = NoCall
  /\ signed = {}
  /\ restarts = 0
  /\ th = [t \in Threads |-> IdleThread]
  /\ taken = 0

\* ----------------------------------------------------------------- startup
\* _connect(): using_db is True only when MONGO_URL is set and
\* server_info() does not raise.
connect_using_db ==
  IF mongo = "unset" THEN FALSE
  ELSE IF mongo = "reachable" THEN TRUE
  ELSE FALSE

\* Importing db: _connect() runs, then _in_memory = {}.
connect ==
  /\ phase = "down"
  /\ using_db' = connect_using_db
  /\ in_memory' = EmptyMap
  /\ phase' = "imported"
  /\ last' = NoCall
  /\ UNCHANGED <<mongo, coll, seed, seed_ok, signed, restarts, th, taken>>

\* _load_json: the file's records, each with a participants list; {} when
\* the file cannot be read.
load_json ==
  IF seed_ok
    THEN [n \in DOMAIN seed |->
            IF "participants" \in DOMAIN seed[n] THEN seed[n]
            ELSE SetKey(seed[n], "participants", << >>)]
    ELSE EmptyMap

\* The documents ensure_seed inserts: body.copy() for every record (the
\* "name" field is the key of coll here).
seed_docs == IF seed_ok THEN seed ELSE EmptyMap

\* ensure_seed(json_path): the new <<coll, in_memory>>.
ensure_seed_mem == load_json

ensure_seed_coll ==
  IF DOMAIN coll = {} THEN seed_docs ELSE coll

ensure_seed ==
  IF ~using_db
    THEN [coll |-> coll, mem |-> ensure_seed_mem]
    ELSE [coll |-> ensure_seed_coll, mem |-> in_memory]

\* get_activities(): the mapping GET /activities returns. In the database
\* branch it is rebuilt from the documents, keyed by each document's name,
\* with _id and name dropped from the body: coll as it is modelled here.
get_activities == IF using_db THEN coll ELSE in_memory

\* app.startup_event: seeds only when the database is in use.
startup_event ==
  /\ phase = "imported"
  /\ LET r == IF using_db THEN ensure_seed
              ELSE [coll |-> coll, mem |-> in_memory]
     IN  /\ coll' = r.coll
         /\ in_memory' = r.mem
  /\ phase' = "serving"
  /\ last' = Response("startup", "app", "", 0, "", EmptyMap, Store)
  /\ UNCHANGED <<mongo, using_db, seed, seed_ok, signed, restarts, th, taken>>

\* A direct call of db.ensure_seed (the module's public function) by the
\* code that embeds db, at process start.
ensure_seed_at_start ==
  /\ phase = "imported"
  /\ coll' = ensure_seed.coll
  /\ in_memory' = ensure_seed.mem
  /\ phase' = "serving"
  /\ last' = Response("startup", "ensure_seed", "", 0, "", EmptyMap, Store)
  /\ UNCHANGED <<mongo, using_db, seed, seed_ok, signed, restarts, th, taken>>

\* The process exits; the database keeps its documents.
restart ==
  /\ phase = "serving"
  /\ restarts < MaxRestarts
  /\ \A t \in Threads : th[t].pc = "idle"
  /\ restarts' = restarts + 1
  /\ phase' = "down"
  /\ using_db' = FALSE
  /\ in_memory' = EmptyMap
  /\ last' = NoCall
  /\ signed' = {}
  /\ UNCHANGED <<mongo, coll, seed, seed_ok, th, taken>>

\* ------------------------------------------------------------ store calls
\* _get_activity_doc: coll.find_one({"name": activity_name}), None when no
\* document has the name.
get_activity_doc(c, activity_name) ==
  IF activity_name \in DOMAIN c
    THEN [found |-> TRUE, doc |-> c[activity_name]]
    ELSE [found |-> FALSE, doc |-> EmptyMap]

\* signup_checks with the capacity test > for >=.
signup_checks_off_by_one(doc, email) ==
  IF InList(email, GetParticipants(doc)) THEN "AlreadySignedUpError"
  ELSE IF HasMax(doc) /\ Len(GetParticipants(doc)) > doc["max_participants"]
    THEN "ActivityFullError"
  ELSE "none"

\* signup_checks with the two tests in the other order.
signup_checks_full_first(doc, email) ==
  IF HasMax(doc) /\ Len(GetParticipants(doc)) >= doc["max_participants"]
    THEN "ActivityFullError"
  ELSE IF InList(email, GetParticipants(doc)) THEN "AlreadySignedUpError"
  ELSE "none"

\* signup_checks comparing the email with the latest participant only.
signup_checks_latest_only(doc, email) ==
  LET p == GetParticipants(doc)
  IN  IF p # << >> /\ p[Len(p)] = email THEN "AlreadySignedUpError"
      ELSE IF HasMax(doc) /\ Len(p) >= doc["max_participants"]
        THEN "ActivityFullError"
      ELSE "none"

\* signup's two checks on the participants it read, in the code's order.
signup_checks(doc, email) ==
  IF InList(email, GetParticipants(doc)) THEN "AlreadySignedUpError"
  ELSE IF HasMax(doc) /\ Len(GetParticipants(doc)) >= doc["max_participants"]
    THEN "ActivityFullError"
  ELSE "none"

\* unregister_checks testing for an empty list instead of membership.
unregister_checks_empty_only(doc, email) ==
  IF GetParticipants(doc) = << >> THEN "NotSignedUpError" ELSE "none"

\* unregister's check on the participants it read.
unregister_checks(doc, email) ==
  IF ~InList(email, GetParticipants(doc)) THEN "NotSignedUpError" ELSE "none"

\* coll.update_one({"name": n}, {"$push": {"participants": email}}): no
\* document matching is no change; an absent array is created.
update_push(c, activity_name, email) ==
  IF activity_name \in DOMAIN c
    THEN [c EXCEPT ![activity_name] =
            SetKey(@, "participants", Append(GetParticipants(@), email))]
    ELSE c

\* coll.update_one({"name": n}, {"$pull": {"participants": email}})
update_pull(c, activity_name, email) ==
  IF activity_name \in DOMAIN c /\ "participants" \in DOMAIN c[activity_name]
    THEN [c EXCEPT ![activity_name] =
            SetKey(@, "participants", PullAll(@["participants"], email))]
    ELSE c

\* activity.setdefault("participants", []).append(email)
mem_append(m, activity_name, email) ==
  [m EXCEPT ![activity_name] =
     SetKey(@, "participants", Append(GetParticipants(@), email))]

\* activity["participants"].remove(email), for an email in the list (for
\* any other, list.remove raises ValueError: see unregister_mem)
mem_remove(m, activity_name, email) ==
  [m EXCEPT ![activity_name] =
     SetKey(@, "participants", ListRemove(@["participants"], email))]

Outcome(exc, c, m) == [exc |-> exc, coll |-> c, mem |-> m]

\* db.signup, the database branch.
signup_db(activity_name, email) ==
  LET r == get_activity_doc(coll, activity_name)
      exc == signup_checks(r.doc, email)
  IN  IF ~r.found THEN Outcome("ActivityNotFoundError", coll, in_memory)
      ELSE IF exc # "none" THEN Outcome(exc, coll, in_memory)
      ELSE Outcome("none", update_push(coll, activity_name, email), in_memory)

\* db.signup, the fallback branch.
signup_mem(activity_name, email) ==
  IF activity_name \notin DOMAIN in_memory
    THEN Outcome("ActivityNotFoundError", coll, in_memory)
  ELSE LET exc == signup_checks(in_memory[activity_name], email)
       IN  IF exc # "none" THEN Outcome(exc, coll, in_memory)
           ELSE Outcome("none", coll, mem_append(in_memory, activity_name, email))

signup(activity_name, email) ==
  IF using_db THEN signup_db(activity_name, email)
  ELSE signup_mem(activity_name, email)

\* db.unregister, the database branch.
unregister_db(activity_name, email) ==
  LET r == get_activity_doc(coll, activity_name)
      exc == unregister_checks(r.doc, email)
  IN  IF ~r.found THEN Outcome("ActivityNotFoundError", coll, in_memory)
      ELSE IF exc # "none" THEN Outcome(exc, coll, in_memory)
      ELSE Outcome("none", update_pull(coll, activity_name, email), in_memory)

\* db.unregister, the fallback branch.
unregister_mem(activity_name, email) ==
  IF activity_name \notin DOMAIN in_memory
    THEN Outcome("ActivityNotFoundError", coll, in_memory)
  ELSE LET exc == unregister_checks(in_memory[activity_name], email)
       IN  IF exc # "none" THEN Outcome(exc, coll, in_memory)
           ELSE IF ~InList(email, GetParticipants(in_memory[activity_name]))
             THEN Outcome("ValueError", coll, in_memory)
           ELSE Outcome("none", coll, mem_remove(in_memory, activity_name, email))

unregister(activity_name, email) ==
  IF using_db THEN unregister_db(activity_name, email)
  ELSE unregister_mem(activity_name, email)

\* ------------------------------------------------------------ HTTP layer
\* http_status with every store error mapped to 400.
http_status_all_400(exc) ==
  IF exc = "none" THEN 200
  ELSE IF exc = "ValueError" THEN 500
  ELSE 400

\* The except clauses of signup_for_activity and unregister_from_activity;
\* an exception neither catches is the framework's 500.
http_status(exc) ==
  IF exc = "none" THEN 200
  ELSE IF exc = "ActivityNotFoundError" THEN 404
  ELSE IF exc = "ValueError" THEN 500
  ELSE 400

http_detail(exc) ==
  CASE exc = "ActivityNotFoundError" -> "Activity not found"
    [] exc = "AlreadySignedUpError" -> "Student is already signed up"
    [] exc = "ActivityFullError" -> "Activity is full"
    [] exc = "NotSignedUpError" -> "Student is not signed up for this activity"
    [] exc = "ValueError" -> "Internal Server Error"
    [] OTHER -> "ok"

\* POST /activities/{activity_name}/signup?email=...
signup_for_activity(activity_name, email) ==
  /\ phase = "serving"
  /\ LET r == signup(activity_name, email)
     IN  /\ coll' = r.coll
         /\ in_memory' = r.mem
         /\ last' = Response("signup", activity_name, email, http_status(r.exc),
                             http_detail(r.exc), EmptyMap, Store)
         /\ signed' = IF r.exc = "none"
                         THEN signed \cup {<<activity_name, email>>}
                         ELSE signed
  /\ UNCHANGED <<phase, mongo, using_db, seed, seed_ok, restarts, th, taken>>

\* DELETE /activities/{activity_name}/unregister?email=...
unregister_from_activity(activity_name, email) ==
  /\ phase = "serving"
  /\ LET r == unregister(activity_name, email)
     IN  /\ coll' = r.coll
         /\ in_memory' = r.mem
         /\ last' = Response("unregister", activity_name, email,
                             http_status(r.exc), http_detail(r.exc), EmptyMap,
                             Store)
         /\ signed' = IF r.exc = "none"
                         THEN signed \ {<<activity_name, email>>}
                         ELSE signed
  /\ UNCHANGED <<phase, mongo, using_db, seed, seed_ok, restarts, th, taken>>

\* GET /activities
list_activities ==
  /\ phase = "serving"
  /\ last' = Response("list", "", "", 200, "ok", get_activities, Store)
  /\ UNCHANGED <<phase, mongo, using_db, coll, in_memory, seed, seed_ok,
                 signed, restarts, th, taken>>

Request ==
  \/ list_activities
  \/ \E n \in RequestNames, e \in Emails : signup_for_activity(n, e)
  \/ \E n \in RequestNames, e \in Emails : unregister_from_activity(n, e)

\* One request at a time; the store is seeded once, at process start.
Next ==
  \/ connect
  \/ startup_event
  \/ ensure_seed_at_start
  \/ restart
  \/ Request

Spec == Init /\ [][Next]_vars

\* ------------------------------------------------ reseeding while serving
\* db.ensure_seed called again, by the code that embeds db, while the
\* process serves requests.
ensure_seed_again ==
  /\ phase = "serving"
  /\ coll' = ensure_seed.coll
  /\ in_memory' = ensure_seed.mem
  /\ last' = Response("ensure_seed", "", "", 0, "", EmptyMap, Store)
  /\ UNCHANGED <<phase, mongo, using_db, seed, seed_ok, signed, restarts, th, taken>>

NextReseed ==
  \/ Next
  \/ ensure_seed_again

SpecReseed == Init /\ [][NextReseed]_vars

\* ------------------------------------------------------ thread per request
\* The handlers are plain def functions, which the framework runs on worker
\* threads: every read and every write of the store is a step of its own.
\* In the database branch the checks work on the document find_one returned;
\* in the fallback branch each test reads the shared list again.
\* Thread t takes up a request: it is idle and there are requests left.
Take(t) ==
  /\ phase = "serving"
  /\ th[t].pc = "idle"
  /\ taken < MaxRequests
  /\ taken' = taken + 1

\* The arguments of the request thread t is handling.
Args(t, n, e) == [th EXCEPT ![t] = [pc |-> "idle", name |-> n, email |-> e]]

\* Thread t answers the request whose arguments are in thread record r.
Respond(t, r, op, exc) ==
  /\ th' = [th EXCEPT ![t] = IdleThread]
  /\ last' = Response(op, r.name, r.email, http_status(exc),
                      http_detail(exc), EmptyMap, Store)
  /\ signed' = IF exc # "none" THEN signed
               ELSE IF op = "signup" THEN signed \cup {<<r.name, r.email>>}
               ELSE signed \ {<<r.name, r.email>>}

\* Thread t goes on with its request at pc.
Goto(t, r, pc) ==
  /\ th' = [th EXCEPT ![t] = [r EXCEPT !.pc = pc]]
  /\ UNCHANGED <<last, signed>>

\* db.signup, database branch: find_one and the checks on its result.
t_signup_db_find(t, n, e) ==
  /\ Take(t) /\ using_db
  /\ LET r == get_activity_doc(coll, n)
         exc == signup_checks(r.doc, e)
         args == Args(t, n, e)[t]
     IN  IF ~r.found THEN Respond(t, args, "signup", "ActivityNotFoundError")
         ELSE IF exc # "none" THEN Respond(t, args, "signup", exc)
         ELSE Goto(t, args, "signup_push")
  /\ UNCHANGED <<phase, mongo, using_db, coll, in_memory, seed, seed_ok,
                 restarts>>

\* db.signup, database branch: update_one $push.
t_signup_db_push(t) ==
  /\ th[t].pc = "signup_push"
  /\ coll' = update_push(coll, th[t].name, th[t].email)
  /\ Respond(t, th[t], "signup", "none")
  /\ UNCHANGED <<phase, mongo, using_db, in_memory, seed, seed_ok, restarts,
                 taken>>

\* db.unregister, database branch: find_one and the check on its result.
t_unregister_db_find(t, n, e) ==
  /\ Take(t) /\ using_db
  /\ LET r == get_activity_doc(coll, n)
         exc == unregister_checks(r.doc, e)
         args == Args(t, n, e)[t]
     IN  IF ~r.found THEN Respond(t, args, "unregister", "ActivityNotFoundError")
         ELSE IF exc # "none" THEN Respond(t, args, "unregister", exc)
         ELSE Goto(t, args, "unregister_pull")
  /\ UNCHANGED <<phase, mongo, using_db, coll, in_memory, seed, seed_ok,
                 restarts>>

\* db.unregister, database branch: update_one $pull.
t_unregister_db_pull(t) ==
  /\ th[t].pc = "unregister_pull"
  /\ coll' = update_pull(coll, th[t].name, th[t].email)
  /\ Respond(t, th[t], "unregister", "none")
  /\ UNCHANGED <<phase, mongo, using_db, in_memory, seed, seed_ok, restarts,
                 taken>>

\* db.signup, fallback branch: activity_name not in _in_memory.
t_signup_mem_lookup(t, n, e) ==
  /\ Take(t) /\ ~using_db
  /\ IF n \notin DOMAIN in_memory
       THEN Respond(t, Args(t, n, e)[t], "signup", "ActivityNotFoundError")
       ELSE Goto(t, Args(t, n, e)[t], "signup_dup")
  /\ UNCHANGED <<phase, mongo, using_db, coll, in_memory, seed, seed_ok,
                 restarts>>

\* db.signup, fallback branch: email in activity.get("participants", []).
t_signup_mem_dup(t) ==
  /\ th[t].pc = "signup_dup"
  /\ IF InList(th[t].email, GetParticipants(in_memory[th[t].name]))
       THEN Respond(t, th[t], "signup", "AlreadySignedUpError")
       ELSE Goto(t, th[t], "signup_full")
  /\ UNCHANGED <<phase, mongo, using_db, coll, in_memory, seed, seed_ok,
                 restarts, taken>>

\* db.signup, fallback branch: the capacity test.
t_signup_mem_full(t) ==
  /\ th[t].pc = "signup_full"
  /\ LET activity == in_memory[th[t].name]
     IN  IF /\ HasMax(activity)
            /\ Len(GetParticipants(activity)) >= activity["max_participants"]
           THEN Respond(t, th[t], "signup", "ActivityFullError")
           ELSE Goto(t, th[t], "signup_append")
  /\ UNCHANGED <<phase, mongo, using_db, coll, in_memory, seed, seed_ok,
                 restarts, taken>>

\* db.signup, fallback branch: the append.
t_signup_mem_append(t) ==
  /\ th[t].pc = "signup_append"
  /\ in_memory' = mem_append(in_memory, th[t].name, th[t].email)
  /\ Respond(t, th[t], "signup", "none")
  /\ UNCHANGED <<phase, mongo, using_db, coll, seed, seed_ok, restarts, taken>>

\* db.unregister, fallback branch: activity_name not in _in_memory.
t_unregister_mem_lookup(t, n, e) ==
  /\ Take(t) /\ ~using_db
  /\ IF n \notin DOMAIN in_memory
       THEN Respond(t, Args(t, n, e)[t], "unregister", "ActivityNotFoundError")
       ELSE Goto(t, Args(t, n, e)[t], "unregister_member")
  /\ UNCHANGED <<phase, mongo, using_db, coll, in_memory, seed, seed_ok,
                 restarts>>

\* db.unregister, fallback branch: email not in activity.get(...).
t_unregister_mem_member(t) ==
  /\ th[t].pc = "unregister_member"
  /\ IF unregister_checks(in_memory[th[t].name], th[t].email) # "none"
       THEN Respond(t, th[t], "unregister", "NotSignedUpError")
       ELSE Goto(t, th[t], "unregister_remove")
  /\ UNCHANGED <<phase, mongo, using_db, coll, in_memory, seed, seed_ok,
                 restarts, taken>>

\* db.unregister, fallback branch: the remove; list.remove raises
\* ValueError when another thread removed the email first.
t_unregister_mem_remove(t) ==
  /\ th[t].pc = "unregister_remove"
  /\ IF InList(th[t].email, GetParticipants(in_memory[th[t].name]))
       THEN /\ in_memory' = mem_remove(in_memory, th[t].name, th[t].email)
            /\ Respond(t, th[t], "unregister", "none")
       ELSE /\ in_memory' = in_memory
            /\ Respond(t, th[t], "unregister", "ValueError")
  /\ UNCHANGED <<phase, mongo, using_db, coll, seed, seed_ok, restarts, taken>>

ThreadStep(t) ==
  \/ \E n \in RequestNames, e \in Emails : t_signup_db_find(t, n, e)
  \/ t_signup_db_push(t)
  \/ \E n \in RequestNames, e \in Emails : t_unregister_db_find(t, n, e)
  \/ t_unregister_db_pull(t)
  \/ \E n \in RequestNames, e \in Emails : t_signup_mem_lookup(t, n, e)
  \/ t_signup_mem_dup(t)
  \/ t_signup_mem_full(t)
  \/ t_signup_mem_append(t)
  \/ \E n \in RequestNames, e \in Emails : t_unregister_mem_lookup(t, n, e)
  \/ t_unregister_mem_member(t)
  \/ t_unregister_mem_remove(t)

NextConc ==
  \/ connect
  \/ startup_event
  \/ ensure_seed_at_start
  \/ list_activities
  \/ \E t \in Threads : ThreadStep(t)

SpecConc == Init /\ [][NextConc]_vars

\* ------------------------------------------------------------- properties
\* The step is the handling of one signup / unregister request.
SignupStep(n, e) ==
  /\ phase = "serving"
  /\ last'.op = "signup" /\ last'.name = n /\ last'.email = e

UnregisterStep(n, e) ==
  /\ phase = "serving"
  /\ last'.op = "unregister" /\ last'.name = n /\ last'.email = e

StoresUnchanged == coll' = coll /\ in_memory' = in_memory

Full(store, n) ==
  /\ n \in DOMAIN store
  /\ HasMax(store[n])
  /\ Len(Roster(store, n)) = store[n]["max_participants"]

\* C1: with requests handled one at a time, an activity whose
\* max_participants is set never has more participants than that, in the
\* collection and in the fallback map alike.
C1_RosterWithinCapacity ==
  \A store \in {coll, in_memory} :
    \A n \in DOMAIN store :
      HasMax(store[n]) => Len(Roster(store, n)) <= store[n]["max_participants"]

\* C1 witness: a signup has just filled the last free slot of a capped
\* activity that had room.
C1_Witness ==
  /\ last.op = "signup" /\ last.status = 200
  /\ Full(Store, last.name)
  /\ Len(Roster(Store, last.name)) >= 2

\* C4 (as claimed): right after the application's startup on an empty backing
\* store, with a readable seed file whose rosters are empty, GET /activities
\* lists exactly the seed's activities, each with an empty roster.
C4_SeedListedAfterStartup ==
  ( /\ last.op = "startup" /\ last.name = "app"
    /\ seed_ok
    /\ DOMAIN last.before = {}
    /\ \A n \in DOMAIN seed : GetParticipants(seed[n]) = << >> )
  => /\ DOMAIN get_activities = DOMAIN seed
     /\ \A n \in DOMAIN seed :
          /\ GetParticipants(get_activities[n]) = << >>
          /\ \A k \in DOMAIN seed[n] : /\ k \in DOMAIN get_activities[n]
                                       /\ get_activities[n][k] = seed[n][k]

\* C5 (as claimed): a signup for an activity whose roster is at its maximum
\* is answered 400 "Activity is full", whatever the email, and changes
\* nothing.
C5_FullForEveryEmail ==
  [][ \A n \in RequestNames, e \in Emails :
        (SignupStep(n, e) /\ Full(Store, n))
          => /\ last'.status = 400
             /\ last'.detail = "Activity is full"
             /\ StoresUnchanged ]_vars

\* C5 (amended): a signup for an activity whose roster is at its maximum
\* changes nothing and is answered 400: "Activity is full" for an email that
\* is not in the roster, "Student is already signed up" for one that is.
C5_FullOrAlreadySignedUp ==
  [][ \A n \in RequestNames, e \in Emails :
        (SignupStep(n, e) /\ Full(Store, n))
          => /\ last'.status = 400
             /\ last'.detail = IF InList(e, Roster(Store, n))
                                 THEN "Student is already signed up"
                                 ELSE "Activity is full"
             /\ StoresUnchanged ]_vars

\* C5 witness: a signup was refused as full, by an activity that is full.
C5_Witness ==
  /\ last.op = "signup" /\ last.detail = "Activity is full"
  /\ last.status = 400
  /\ Full(Store, last.name)
  /\ ~InList(last.email, Roster(Store, last.name))

\* C6: once signup(activity, email) has succeeded and until that email is
\* unregistered from that activity, another signup(activity, email) is
\* answered 400 "Student is already signed up" and changes no roster.
C6_SecondSignupRefused ==
  [][ \A n \in RequestNames, e \in Emails :
        (SignupStep(n, e) /\ <<n, e>> \in signed)
          => /\ last'.status = 400
             /\ last'.detail = "Student is already signed up"
             /\ StoresUnchanged ]_vars

\* C6 witness: the second signup of an email this process signed up was
\* refused, other participants having joined in between.
C6_Witness ==
  /\ last.op = "signup" /\ last.detail = "Student is already signed up"
  /\ <<last.name, last.email>> \in signed
  /\ Len(Roster(Store, last.name)) >= 2
  /\ Roster(Store, last.name)[1] = last.email

\* C7: signup and unregister for a name the store does not hold are
\* answered 404 "Activity not found" and change nothing: no activity is
\* created and no roster changes.
C7_UnknownActivityNotFound ==
  [][ \A n \in RequestNames, e \in Emails :
        ((SignupStep(n, e) \/ UnregisterStep(n, e)) /\ n \notin DOMAIN Store)
          => /\ last'.status = 404
             /\ last'.detail = "Activity not found"
             /\ StoresUnchanged ]_vars

\* C7 witness: a request for an unknown name was answered 404 by a store
\* that holds activities with participants.
C7_Witness ==
  /\ last.status = 404 /\ last.op \in {"signup", "unregister"}
  /\ last.name \notin DOMAIN Store
  /\ \E n \in DOMAIN Store : Roster(Store, n) # << >>

\* C8: unregister(activity, email) for a known activity whose roster does
\* not hold the email is answered 400 "Student is not signed up for this
\* activity" and changes no roster.
C8_UnregisterNotSignedUp ==
  [][ \A n \in RequestNames, e \in Emails :
        (/\ UnregisterStep(n, e)
         /\ n \in DOMAIN Store
         /\ ~InList(e, Roster(Store, n)))
          => /\ last'.status = 400
             /\ last'.detail = "Student is not signed up for this activity"
             /\ StoresUnchanged ]_vars

\* C8 witness: an unregister was refused by an activity that has other
\* participants.
C8_Witness ==
  /\ last.op = "unregister" /\ last.status = 400
  /\ last.name \in DOMAIN Store
  /\ Roster(Store, last.name) # << >>
  /\ ~InList(last.email, Roster(Store, last.name))

\* C9: an unregister that comes right after a successful signup of the same
\* email for the same activity succeeds and leaves every roster as it was
\* before that signup, same emails in the same order.
C9_SignupUnregisterRoundTrip ==
  [][ \A n \in RequestNames, e \in Emails :
        (/\ UnregisterStep(n, e)
         /\ last.op = "signup" /\ last.status = 200
         /\ last.name = n /\ last.email = e)
          => /\ last'.status = 200
             /\ DOMAIN Store' = DOMAIN last.before
             /\ \A a \in DOMAIN last.before :
                  Roster(Store', a) = Roster(last.before, a) ]_vars

\* C9 witness: an unregister right after the signup of the same email has
\* succeeded, on a roster that holds other participants.
C9_Witness ==
  /\ last.op = "unregister" /\ last.status = 200 /\ last.follows
  /\ Roster(Store, last.name) # << >>

\* The distinct emails of a roster.
RosterSet(lst) == {lst[i] : i \in 1..Len(lst)}

\* C2 (as claimed): with requests handled on concurrent threads, signups of
\* different emails never put more distinct emails on a roster than the
\* activity's max_participants.
C2_ConcurrentSignupsWithinCapacity ==
  \A store \in {coll, in_memory} :
    \A n \in DOMAIN store :
      HasMax(store[n])
        => Cardinality(RosterSet(Roster(store, n))) <= store[n]["max_participants"]

\* C3 (as claimed): with requests handled on concurrent threads, no email
\* is twice in a roster.
C3_NoDuplicateParticipants ==
  \A store \in {coll, in_memory} :
    \A n \in DOMAIN store : NoDup(Roster(store, n))

\* C10 (as claimed): ensure_seed called on a store that holds activities
\* changes nothing.
C10_EnsureSeedIdempotent ==
  [][ (/\ phase = "serving"
       /\ last'.op = "ensure_seed"
       /\ DOMAIN Store # {})
        => StoresUnchanged ]_vars

=============================================================================
